---- MODULE Spec2Model ----
(***************************************************************************)
(* A model of the realNVP notebook (src/main.ipynb): the coupling layer,   *)
(* FlowStack, FlowGenerator and the builder helpers.                       *)
(*                                                                         *)
(* Numbers.  Tensor entries are exact rationals <<num, den>> (den > 0, in  *)
(* lowest terms).  A scale value is an integer k standing for k * ln 2, so *)
(* that torch.exp(scale) is the rational 2^k and exp(-scale) is 2^(-k):    *)
(* exp stays a homomorphism from sums to products, and nothing is rounded. *)
(* Floating-point rounding is outside the model.                           *)
(*                                                                         *)
(* Tensors.  A batch [B, W] is a sequence of B rows of W numbers; a mask   *)
(* is a ByteTensor, a sequence of bytes.  torch.where broadcasts its three *)
(* operands along the last dimension (a width of 1 stretches) and raises   *)
(* RuntimeError when the widths cannot be broadcast.                       *)
(***************************************************************************)
EXTENDS Integers, Sequences, FiniteSets, TLC

\* ------------------------------------------------------------------ bounds
\* Largest feature dimension (mask length, network width, input width).
MaxDim == 2

\* Largest number of modules (coupling layers and stacks) in a flow under test.
MaxNodes == 4

\* Largest number of arguments handed to FlowStack(*args) at once.
MaxArgs == 2

\* Largest n handed to create_mask and create_2cl.
MaxMaskLen == 4

\* Largest depth d handed to create_flownet (its default is 3).
MaxDepth == 3

\* n = 2 in the main cell: the feature dimension of the flows under test.
FeatureDim == 2

\* Width of a ByteTensor entry (torch.uint8), as the modulus 2^8.
ByteMod == 256

\* ----------------------------------------------------------------- numbers
Abs(a) == IF a < 0 THEN -a ELSE a

RECURSIVE GCD(_, _)
GCD(a, b) == IF b = 0 THEN a ELSE GCD(b, a % b)

\* The rational n/d in lowest terms with a positive denominator.
Rat(n, d) ==
    LET g == GCD(Abs(n), Abs(d))
        sgn == IF d < 0 THEN -1 ELSE 1
    IN  <<sgn * (n \div g), sgn * (d \div g)>>

RInt(k) == <<k, 1>>
RZero == RInt(0)
RAdd(a, b) == Rat(a[1] * b[2] + b[1] * a[2], a[2] * b[2])
RSub(a, b) == Rat(a[1] * b[2] - b[1] * a[2], a[2] * b[2])
RMul(a, b) == Rat(a[1] * b[1], a[2] * b[2])

RECURSIVE Pow2(_)
Pow2(k) == IF k = 0 THEN 1 ELSE 2 * Pow2(k - 1)

\* torch.exp on a scale of k * ln 2.
Exp(k) == IF k >= 0 THEN <<Pow2(k), 1>> ELSE <<1, Pow2(-k)>>

\* ----------------------------------------------------------------- tensors
\* The exceptions a call can end with; "none" is a normal return.
Raise(e) == [exc |-> e]

\* No call made yet.
Idle == [exc |-> "idle"]

\* The name `prior` is not bound in the module's globals.
Unbound == [kind |-> "unbound"]

\* Mutant of BroadcastWidth: no stretching, the widths must be equal.
BroadcastWidthStrict(a, b) == IF a = b THEN a ELSE 0

\* Broadcast of two last-dimension widths; 0 when they cannot be broadcast.
BroadcastWidth(a, b) ==
    IF a = b THEN a
    ELSE IF a = 1 THEN b
    ELSE IF b = 1 THEN a
    ELSE 0

\* The result of a tensor operation is a new tensor, held as a sequence.
Tensor(f) == f \o <<>>

\* Entry i of a row stretched by broadcasting.
At(r, i) == IF Len(r) = 1 THEN r[1] ELSE r[i]

\* Mutant of Invert: the bitwise complement of each byte.
InvertBitwise(mask) == [i \in 1..Len(mask) |-> (ByteMod - 1) - mask[i]]

\* ByteTensor.__invert__ (torch <= 1.1, the notebook's runtime): 1 - self in uint8.
Invert(mask) == Tensor([i \in 1..Len(mask) |-> (1 - mask[i]) % ByteMod])

\* torch.where(cond, a, b) on one row, already known to broadcast to width w:
\* a nonzero byte of cond selects a.
WhereRow(cond, a, b, w) ==
    Tensor([i \in 1..w |-> IF At(cond, i) # 0 THEN At(a, i) ELSE At(b, i)])

\* torch.zeros_like on one row.
ZerosLike(r) == Tensor([i \in 1..Len(r) |-> RZero])

RECURSIVE SumInts(_)
SumInts(s) == IF s = <<>> THEN 0 ELSE Head(s) + SumInts(Tail(s))

\* ---------------------------------------------------------------- networks
\* A scale or translate network with fixed parameters: n is the in/out feature
\* count of its Linear layers, k stands for the parameter values.  Row by row it
\* is a fixed function of the whole input row: every entry of the row weighs in
\* (with a weight prime to the moduli below).
RowHash(r) == SumInts([j \in 1..Len(r) |-> Pow2(j - 1) * (2 * r[j][1] + r[j][2])])

\* create_s: ends in Tanh, so its output is bounded; integer scales -1, 0, 1.
ScaleNet(net, r) ==
    LET h == RowHash(r)
    IN  Tensor([i \in 1..net.n |-> ((h + net.k * i) % 3) - 1])

\* create_t: unbounded output.
TransNet(net, r) ==
    LET h == RowHash(r)
    IN  Tensor([i \in 1..net.n |-> RInt(((h * net.k + i) % 5) - 2)])

\* --------------------------------------------------- CouplingLayer (leaf)
\* A coupling layer: CouplingLayer(s, t, mask) keeps the three as given.
CouplingLayer(s, t, mask) == [kind |-> "CouplingLayer", s |-> s, t |-> t, mask |-> mask]

BatchWidth(x) == Len(x[1])

\* Mutant of PassThrough: x_ is all zeros.
PassThroughZeros(mask, x, w) ==
    Tensor([b \in 1..Len(x) |-> [i \in 1..w |-> RZero]])

\* Mutant of PassThrough: x_ is x itself, stretched to width w.
PassThroughAll(mask, x, w) ==
    Tensor([b \in 1..Len(x) |-> [i \in 1..w |-> At(x[b], i)]])

\* x_ = torch.where(self.mask, x, torch.zeros_like(x)), for a batch of width
\* broadcastable with the mask to w.
PassThrough(mask, x, w) ==
    Tensor([b \in 1..Len(x) |-> WhereRow(mask, x[b], ZerosLike(x[b]), w)])

\* Mutant of Scale: the network's output is kept on every dimension.
ScaleUnmasked(cl, x_, w) ==
    Tensor([b \in 1..Len(x_) |-> ScaleNet(cl.s, x_[b])])

\* scale = torch.where(~self.mask, self._s(x_), torch.zeros_like(x_))
Scale(cl, x_, w) ==
    Tensor([b \in 1..Len(x_) |->
        WhereRow(Invert(cl.mask), ScaleNet(cl.s, x_[b]), [i \in 1..w |-> 0], w)])

\* trans = torch.where(~self.mask, self._t(x_), torch.zeros_like(x_))
Trans(cl, x_, w) ==
    Tensor([b \in 1..Len(x_) |->
        WhereRow(Invert(cl.mask), TransNet(cl.t, x_[b]), ZerosLike(x_[b]), w)])

\* x = torch.where(~self.mask, x * torch.exp(scale) + trans, x_)
ForwardMap(mask, x, scale, trans, x_, w) ==
    Tensor([b \in 1..Len(x) |->
        WhereRow(Invert(mask),
                 [i \in 1..w |-> RAdd(RMul(At(x[b], i), Exp(scale[b][i])), trans[b][i])],
                 x_[b], w)])

\* Mutant of InverseMap: the scale is applied with the forward sign.
InverseMapSameSign(mask, y, scale, trans, y_, w) ==
    Tensor([b \in 1..Len(y) |->
        WhereRow(Invert(mask),
                 [i \in 1..w |-> RMul(RSub(At(y[b], i), trans[b][i]), Exp(scale[b][i]))],
                 y_[b], w)])

\* y = torch.where(~self.mask, (y - trans) * torch.exp(-1. * scale), y_)
InverseMap(mask, y, scale, trans, y_, w) ==
    Tensor([b \in 1..Len(y) |->
        WhereRow(Invert(mask),
                 [i \in 1..w |-> RMul(RSub(At(y[b], i), trans[b][i]), Exp(-1 * scale[b][i]))],
                 y_[b], w)])

\* log_det = scale.sum(dim=1)
LogDet(scale) == Tensor([b \in 1..Len(scale) |-> SumInts(scale[b])])

\* A per-example log-det tensor of shape [B]; FlowStack starts from the Python
\* float 0. instead.
TensorLD(v) == [kind |-> "tensor", v |-> v]
FloatLD(f) == [kind |-> "float", v |-> f]

\* CouplingLayer.forward(x): torch.where raises when mask and input cannot be
\* broadcast, a Linear layer raises when the width it is given is not its own.
CouplingForward(cl, x) ==
    LET w == BroadcastWidth(Len(cl.mask), BatchWidth(x))
    IN  IF w = 0 \/ cl.s.n # w \/ cl.t.n # w
        THEN Raise("RuntimeError")
        ELSE LET x_ == PassThrough(cl.mask, x, w)
                 scale == Scale(cl, x_, w)
                 trans == Trans(cl, x_, w)
             IN  [exc |-> "none",
                  y |-> ForwardMap(cl.mask, x, scale, trans, x_, w),
                  log_det |-> TensorLD(LogDet(scale))]

\* CouplingLayer.inverse(y)
CouplingInverse(cl, y) ==
    LET w == BroadcastWidth(Len(cl.mask), BatchWidth(y))
    IN  IF w = 0 \/ cl.s.n # w \/ cl.t.n # w
        THEN Raise("RuntimeError")
        ELSE LET y_ == PassThrough(cl.mask, y, w)
                 scale == Scale(cl, y_, w)
                 trans == Trans(cl, y_, w)
             IN  [exc |-> "none",
                  y |-> InverseMap(cl.mask, y, scale, trans, y_, w)]

\* ------------------------------------------------- FlowModule, FlowStack
\* The classes of the objects that can be handed to a constructor.  A
\* CouplingLayer and a FlowStack are FlowModules; kind "FlowModule" is the
\* abstract class itself (or a subclass that overrides nothing); kind "Module"
\* is a torch.nn.Module that is no FlowModule; kind "object" is anything else,
\* with the attributes it happens to have.
IsFlowModule(o) == o.kind \in {"CouplingLayer", "FlowStack", "FlowModule"}

\* hasattr(o, "forward"): torch.nn.Module defines forward.
ExposesForward(o) ==
    IF o.kind = "object" THEN o.forward ELSE TRUE

\* hasattr(o, "inverse"): FlowModule defines inverse; a plain Module has none.
ExposesInverse(o) ==
    IF o.kind = "object" THEN o.inverse
    ELSE IF o.kind = "Module" THEN FALSE
    ELSE TRUE

\* Whether a constructor call raised.
Raised(r) == "exc" \in DOMAIN r

\* Mutant of FlowStackInit: no isinstance assertion.
FlowStackInitUnchecked(args) == [kind |-> "FlowStack", mods |-> args]

\* FlowStack.__init__(*args): every argument must be a FlowModule; the
\* members are kept in argument order (keys "0", "1", ...).
FlowStackInit(args) ==
    IF \E i \in 1..Len(args) : ~IsFlowModule(args[i])
    THEN Raise("AssertionError")
    ELSE [kind |-> "FlowStack", mods |-> args]

\* Mutant of ForwardOrder: the members are visited last to first.
ForwardOrderReversed(k) == [i \in 1..k |-> k + 1 - i]

\* self._modules.values(): the members' positions in argument order.
ForwardOrder(k) == [i \in 1..k |-> i]

\* Mutant of InverseOrder: the members are not reversed.
InverseOrderUnreversed(k) == [i \in 1..k |-> i]

\* reversed(self._modules.values())
InverseOrder(k) == [i \in 1..k |-> k + 1 - i]

\* Mutant of AddLD: the member's log-det replaces the total.
AddLDOverwrite(acc, delta) == delta

\* log_abs_det += delta, where log_abs_det starts as the float 0. and a
\* member returns a tensor [B] (a coupling layer, a non-empty stack) or the
\* float 0. (an empty stack).
AddLD(acc, delta) ==
    IF acc.kind = "float"
    THEN IF delta.kind = "float"
         THEN FloatLD(acc.v + delta.v)
         ELSE TensorLD(Tensor([b \in 1..Len(delta.v) |-> acc.v + delta.v[b]]))
    ELSE IF delta.kind = "float"
         THEN TensorLD(Tensor([b \in 1..Len(acc.v) |-> acc.v[b] + delta.v]))
         ELSE TensorLD(Tensor([b \in 1..Len(acc.v) |-> acc.v[b] + delta.v[b]]))

\* One call of a member, as the stack at `path` makes it: the member's
\* position, the operation, what it was given and what it returned.
Call(path, i, op, arg, ret, ld) ==
    [path |-> Append(path, i), op |-> op, arg |-> arg, ret |-> ret, ld |-> ld]

RECURSIVE ModuleForward(_, _, _)
RECURSIVE ModuleInverse(_, _, _)
RECURSIVE StackForwardLoop(_, _, _, _, _, _)
RECURSIVE StackInverseLoop(_, _, _, _, _)

\* FlowStack.forward's loop, at step i of its iteration order: x and
\* log_abs_det are the loop's variables, calls the calls made so far (by this
\* stack and by the stacks nested in it, in the order they were made).
StackForwardLoop(st, path, i, x, log_abs_det, calls) ==
    IF i > Len(st.mods)
    THEN [exc |-> "none", y |-> x, log_det |-> log_abs_det, calls |-> calls]
    ELSE LET j == ForwardOrder(Len(st.mods))[i]
             r == ModuleForward(st.mods[j], Append(path, j), x)
         IN  IF r.exc # "none"
             THEN Raise(r.exc)
             ELSE StackForwardLoop(st, path, i + 1, r.y, AddLD(log_abs_det, r.log_det),
                      calls \o <<Call(path, j, "forward", x, r.y, r.log_det)>> \o r.calls)

\* FlowStack.inverse's loop.
StackInverseLoop(st, path, i, y, calls) ==
    IF i > Len(st.mods)
    THEN [exc |-> "none", y |-> y, calls |-> calls]
    ELSE LET j == InverseOrder(Len(st.mods))[i]
             r == ModuleInverse(st.mods[j], Append(path, j), y)
         IN  IF r.exc # "none"
             THEN Raise(r.exc)
             ELSE StackInverseLoop(st, path, i + 1, r.y,
                      calls \o <<Call(path, j, "inverse", y, r.y, FloatLD(0))>> \o r.calls)

\* module(x) for the module at `path`: CouplingLayer.forward, FlowStack.forward
\* or, for a FlowModule that defines no forward, torch.nn.Module.forward.
ModuleForward(m, path, x) ==
    IF m.kind = "CouplingLayer"
    THEN LET r == CouplingForward(m, x)
         IN  IF r.exc # "none" THEN r
             ELSE [exc |-> "none", y |-> r.y, log_det |-> r.log_det, calls |-> <<>>]
    ELSE IF m.kind = "FlowStack"
    THEN StackForwardLoop(m, path, 1, x, FloatLD(0), <<>>)
    ELSE Raise("NotImplementedError")

\* module.inverse(y): CouplingLayer.inverse, FlowStack.inverse or FlowModule.inverse.
ModuleInverse(m, path, y) ==
    IF m.kind = "CouplingLayer"
    THEN LET r == CouplingInverse(m, y)
         IN  IF r.exc # "none" THEN r
             ELSE [exc |-> "none", y |-> r.y, calls |-> <<>>]
    ELSE IF m.kind = "FlowStack"
    THEN StackInverseLoop(m, path, 1, y, <<>>)
    ELSE Raise("NotImplementedError")

\* ----------------------------------------------------------- FlowGenerator
IsDistribution(o) == o.kind = "Distribution"

\* Mutant of FlowGeneratorInit: the prior's class is not asserted.
FlowGeneratorInitAnyPrior(n, p) ==
    IF ~IsFlowModule(n)
    THEN Raise("AssertionError")
    ELSE [kind |-> "FlowGenerator", _net |-> n, _prior |-> p]

\* FlowGenerator.__init__(net, prior): the two isinstance assertions, then
\* self._net = net and self._prior = prior.
FlowGeneratorInit(n, p) ==
    IF ~IsFlowModule(n) \/ ~IsDistribution(p)
    THEN Raise("AssertionError")
    ELSE [kind |-> "FlowGenerator", _net |-> n, _prior |-> p]

\* A log-density: q + ln2 * ln 2 + hl2pi * (ln(2 pi) / 2), q rational.
LogValue(q, ln2, hl2pi) == [q |-> q, ln2 |-> ln2, hl2pi |-> hl2pi]

RECURSIVE SumRats(_)
SumRats(s) == IF s = <<>> THEN RZero ELSE RAdd(Head(s), SumRats(Tail(s)))

\* MultivariateNormal(loc, eye(dim)).log_prob(y) for a batch y: value - loc
\* broadcasts, and the result must have the distribution's dimension.
LogProb(d, y) ==
    LET w == BroadcastWidth(BatchWidth(y), d.dim)
    IN  IF w = 0 \/ w # d.dim
        THEN Raise("RuntimeError")
        ELSE [exc |-> "none",
              v |-> Tensor([b \in 1..Len(y) |->
                      LET sq == [i \in 1..w |->
                                  LET diff == RSub(At(y[b], i), RInt(d.loc))
                                  IN  RMul(diff, diff)]
                      IN  LogValue(RMul(Rat(-1, 2), SumRats(sq)), 0, -d.dim)])]

\* log_prob(y) + log_abs_det
AddLogDet(lp, ld) ==
    Tensor([b \in 1..Len(lp) |->
        LogValue(lp[b].q, lp[b].ln2 + (IF ld.kind = "float" THEN ld.v ELSE ld.v[b]),
                 lp[b].hl2pi)])

\* FlowGenerator.log_p(x): y, log_abs_det = self._net(x), then
\* prior.log_prob(y) + log_abs_det, where `prior` is looked up in the module's
\* globals (bound to `globalPrior`), not on self.
LogP(g, globalPrior, xx) ==
    LET r == ModuleForward(g._net, <<>>, xx)
    IN  IF r.exc # "none" THEN Raise(r.exc)
        ELSE IF globalPrior = Unbound THEN Raise("NameError")
        ELSE LET lp == LogProb(globalPrior, r.y)
             IN  IF lp.exc # "none" THEN lp
                 ELSE [exc |-> "none", v |-> AddLogDet(lp.v, r.log_det)]

\* ---------------------------------------------------------------- builders
\* The permutations torch.randperm(n) can return: position i holds perm[i].
Perms(n) ==
    {f \in [1..n -> 0..(n - 1)] : \A i, j \in 1..n : f[i] = f[j] => i = j}

\* create_mask with >= in place of >.
CreateMaskAtLeast(n, p, perm) ==
    LET idx == Tensor([i \in 1..n |-> perm[i] % ByteMod])
    IN  Tensor([i \in 1..n |-> IF idx[i] * p[2] >= p[1] * (n - 1) THEN 1 ELSE 0])

\* create_mask(n, p) when randperm returned perm: idx = perm.byte(), then 1
\* where idx > p * (n - 1) and 0 elsewhere; p is the rational <<num, den>>.
CreateMask(n, p, perm) ==
    LET idx == Tensor([i \in 1..n |-> perm[i] % ByteMod])
    IN  Tensor([i \in 1..n |-> IF idx[i] * p[2] > p[1] * (n - 1) THEN 1 ELSE 0])

\* create_2cl(n, p) when randperm returned perm and the four networks t1, t2,
\* s1, s2 were initialised with the parameters ws[1..4].
Create2cl(n, p, perm, ws) ==
    LET mask == CreateMask(n, p, perm)
        t1 == [n |-> n, k |-> ws[1]]
        t2 == [n |-> n, k |-> ws[2]]
        s1 == [n |-> n, k |-> ws[3]]
        s2 == [n |-> n, k |-> ws[4]]
        cl1 == CouplingLayer(s1, t1, mask)
        cl2 == CouplingLayer(s2, t2, Invert(mask))
    IN  FlowStackInit(<<cl1, cl2>>)

\* Mutant of FlownetLoop: the new block is put in front of the flow so far.
RECURSIVE FlownetLoopPrepend(_, _, _, _)
FlownetLoopPrepend(acc, i, d, blocks) ==
    IF i > d THEN acc
    ELSE FlownetLoopPrepend(FlowStackInit(<<blocks[i], acc>>), i + 1, d, blocks)

\* create_flownet's loop, `for i in range(1, d): net = FlowStack(net,
\* create_2cl(...))`, with acc for net and blocks[i] for what the i-th call of
\* create_2cl returns (positions counted from 1).
RECURSIVE FlownetLoop(_, _, _, _)
FlownetLoop(acc, i, d, blocks) ==
    IF i > d THEN acc
    ELSE FlownetLoop(FlowStackInit(<<acc, blocks[i]>>), i + 1, d, blocks)

\* p = [0.5] * d
DefaultPs(d) == [i \in 1..d |-> Rat(1, 2)]

\* create_flownet(n, d, p) when the i-th block drew the permutation perms[i]
\* and the network parameters wss[i]; ht and hs are left at their defaults, so
\* the assertion compares len(p) with d.
CreateFlownet(n, d, p, perms, wss) ==
    IF Len(p) # d THEN Raise("AssertionError")
    ELSE IF d = 0 THEN Raise("IndexError")
    ELSE LET blocks == [i \in 1..d |-> Create2cl(n, p[i], perms[i], wss[i])]
         IN  FlownetLoop(blocks[1], 2, d, blocks)

\* ------------------------------------------------------------------ inputs
\* Entries of the input batches: a one-example batch draws from Vals, the
\* examples of a larger batch from Vals2.
Vals == {RInt(-1), RZero, RInt(2)}
Vals2 == {RInt(-1), RInt(2)}

\* Batch sizes tried.
BatchSizes == {1, 2}

Rows(w) == [1..w -> Vals]
Rows2(w) == [1..w -> Vals2]
Batches(w) ==
    UNION {[1..b -> IF b = 1 THEN Rows(w) ELSE Rows2(w)] : b \in BatchSizes}

\* Boolean masks as ByteTensors: entries 0 and 1.
Masks(n) == [1..n -> {0, 1}]

\* Parameter values of the networks.
Weights == {1, 2}
Nets(n) == [n : {n}, k : Weights]

\* The coupling layers of mask length m whose two networks have n features.
Layers(m, n) ==
    {CouplingLayer(s, t, mask) : s \in Nets(n), t \in Nets(n), mask \in Masks(m)}

\* ------------------------------------------------------------------- state
VARIABLES
    net,    \* the flow module under test
    x,      \* the input batch
    fwd,    \* what net.forward(x) returned or raised
    back,   \* what net.inverse(fwd.y) returned or raised
    inv,    \* what net.inverse(x) returned or raised (the sampling direction)
    args,   \* the arguments of the last constructor or builder call
    made,   \* what that call returned or raised
    prior,  \* what the module-level name `prior` is bound to
    logp    \* what made.log_p(x) returned or raised

vars == <<net, x, fwd, back, inv, args, made, prior, logp>>


\* ---------------------------------------- a single coupling layer, called
InitCL ==
    /\ \E m \in 1..MaxDim, n \in 1..MaxDim : net \in Layers(m, n)
    /\ \E w \in 1..MaxDim : x \in Batches(w)
    /\ fwd = Idle
    /\ back = Idle
    /\ inv = Idle
    /\ args = Idle
    /\ made = Idle
    /\ prior = Unbound
    /\ logp = Idle

CLForward ==
    /\ fwd = Idle
    /\ fwd' = CouplingForward(net, x)
    /\ UNCHANGED <<net, x, back, inv, args, made, prior, logp>>

CLInverseOfForward ==
    /\ fwd.exc = "none"
    /\ back = Idle
    /\ back' = CouplingInverse(net, fwd.y)
    /\ UNCHANGED <<net, x, fwd, inv, args, made, prior, logp>>

CLInverse ==
    /\ inv = Idle
    /\ inv' = CouplingInverse(net, x)
    /\ UNCHANGED <<net, x, fwd, back, args, made, prior, logp>>

NextCL == CLForward \/ CLInverseOfForward \/ CLInverse

SpecCL == InitCL /\ [][NextCL]_vars

\* The input is a batch of the layer's own feature dimension.
WellShaped == Len(net.mask) = BatchWidth(x)

\* C1: CouplingLayer round-trip: whenever forward(x) returned y for a batch x
\* of the layer's feature dimension and inverse(y) was then called, inverse
\* returned normally and its result equals x in every dimension of every example.
C1_RoundTrip ==
    (back # Idle /\ WellShaped) => (back.exc = "none" /\ back.y = x)

\* C1 witness: a round trip through a layer that really transforms something
\* (some mask-false dimension was scaled and y differs from x).
C1_Witness ==
    /\ back # Idle
    /\ WellShaped
    /\ fwd.y # x
    /\ \E b \in 1..Len(x) : fwd.log_det.v[b] # 0

\* The indices of a set, in increasing order, summed over f.
RECURSIVE SumOver(_, _)
SumOver(S, f) ==
    IF S = {} THEN 0
    ELSE LET i == CHOOSE j \in S : TRUE IN f[i] + SumOver(S \ {i}, f)

\* C5: for each example b of the batch, the log_det returned by
\* CouplingLayer.forward is the sum of scale_fn's output (on the pass-through
\* part of the example) over exactly the mask-false dimensions.
C5_LogDetMaskFalse ==
    (fwd # Idle /\ fwd.exc = "none" /\ WellShaped) =>
        /\ fwd.log_det.kind = "tensor"
        /\ Len(fwd.log_det.v) = Len(x)
        /\ \A b \in 1..Len(x) :
            LET pass == [i \in 1..Len(net.mask) |->
                            IF net.mask[i] # 0 THEN x[b][i] ELSE RZero]
                out == ScaleNet(net.s, pass)
            IN  fwd.log_det.v[b] = SumOver({i \in 1..Len(net.mask) : net.mask[i] = 0}, out)

\* C5 witness: a forward call where scale_fn is nonzero on a mask-true
\* dimension, which log_det leaves out, and nonzero on a mask-false one.
C5_Witness ==
    /\ fwd # Idle /\ fwd.exc = "none" /\ WellShaped
    /\ \E b \in 1..Len(x) :
        LET pass == [i \in 1..Len(net.mask) |->
                        IF net.mask[i] # 0 THEN x[b][i] ELSE RZero]
            out == ScaleNet(net.s, pass)
        IN  /\ \E i \in 1..Len(net.mask) : net.mask[i] # 0 /\ out[i] # 0
            /\ \E i \in 1..Len(net.mask) : net.mask[i] = 0 /\ out[i] # 0

\* C10 as stated: forward and inverse raise a shape error whenever the mask
\* length differs from the last dimension of the input.
C10_AlwaysShapeError ==
    (~WellShaped) =>
        /\ fwd # Idle => fwd.exc = "RuntimeError"
        /\ inv # Idle => inv.exc = "RuntimeError"

\* C10 as amended: forward and inverse raise when the mask length and the
\* input's last dimension differ and neither is 1; when one of them is 1
\* torch.where broadcasts it, and with networks of the broadcast width the
\* call returns a result of that width and raises nothing.
C10_ShapeErrorUnlessBroadcast ==
    LET m == Len(net.mask)
        d == BatchWidth(x)
        w == IF m > d THEN m ELSE d
        Silent(r) == r.exc = "none" /\ \A b \in 1..Len(x) : Len(r.y[b]) = w
    IN  (m # d) =>
            /\ (m # 1 /\ d # 1) =>
                /\ fwd # Idle => fwd.exc = "RuntimeError"
                /\ inv # Idle => inv.exc = "RuntimeError"
            /\ ((m = 1 \/ d = 1) /\ net.s.n = w /\ net.t.n = w) =>
                /\ fwd # Idle => Silent(fwd)
                /\ inv # Idle => Silent(inv)
            /\ ((m = 1 \/ d = 1) /\ (net.s.n # w \/ net.t.n # w)) =>
                /\ fwd # Idle => fwd.exc = "RuntimeError"
                /\ inv # Idle => inv.exc = "RuntimeError"

\* C10 witness: a length-1 mask against a wider input, broadcast by both
\* forward and inverse into a result.
C10_Witness ==
    /\ Len(net.mask) = 1
    /\ BatchWidth(x) > 1
    /\ fwd # Idle /\ fwd.exc = "none"
    /\ inv # Idle /\ inv.exc = "none"

\* The width mask and input are broadcast to.
Width == BroadcastWidth(Len(net.mask), BatchWidth(x))

\* Batches a and c are the same on every mask-true dimension.
SameOnMaskTrue(a, c) ==
    /\ Len(a) = Len(c)
    /\ \A b \in 1..Len(a), i \in 1..Width :
        At(net.mask, i) # 0 => At(a[b], i) = At(c[b], i)

\* C12: pass-through dimensions are left unchanged: what forward returned is
\* its input on every mask-true dimension, and what inverse returned (called
\* on forward's output or on an input of its own) is inverse's input on every
\* mask-true dimension.
C12_PassThroughUnchanged ==
    /\ (fwd # Idle /\ fwd.exc = "none") => SameOnMaskTrue(fwd.y, x)
    /\ (back # Idle /\ back.exc = "none") => SameOnMaskTrue(back.y, fwd.y)
    /\ (inv # Idle /\ inv.exc = "none") => SameOnMaskTrue(inv.y, x)

\* C12 witness: forward and inverse both ran on a layer with a mask-true and
\* a mask-false dimension and both changed the data.
C12_Witness ==
    /\ WellShaped
    /\ \E i, j \in 1..Len(net.mask) : net.mask[i] # 0 /\ net.mask[j] = 0
    /\ fwd # Idle /\ fwd.exc = "none" /\ fwd.y # x
    /\ inv # Idle /\ inv.exc = "none" /\ inv.y # x

\* C13: scale and trans depend only on the mask-true entries of the input:
\* the batch handed to the two networks is zero on every mask-false dimension,
\* any other input that agrees with x on the mask-true dimensions gets the
\* same scale and trans, and inverse, called on what forward returned,
\* computes the scale and trans forward computed.
C13_MaskTrueOnly ==
    (fwd # Idle /\ fwd.exc = "none") =>
        LET x_ == PassThrough(net.mask, x, Width)
            scale == Scale(net, x_, Width)
            trans == Trans(net, x_, Width)
        IN  /\ \A b \in 1..Len(x), i \in 1..Width :
                At(net.mask, i) = 0 => x_[b][i] = RZero
            /\ \A x2 \in Batches(BatchWidth(x)) :
                SameOnMaskTrue(x, x2) =>
                    LET x2_ == PassThrough(net.mask, x2, Width)
                    IN  /\ Scale(net, x2_, Width) = scale
                        /\ Trans(net, x2_, Width) = trans
            /\ (back # Idle /\ back.exc = "none") =>
                LET wy == BroadcastWidth(Len(net.mask), BatchWidth(fwd.y))
                    y_ == PassThrough(net.mask, fwd.y, wy)
                IN  /\ Scale(net, y_, wy) = scale
                    /\ Trans(net, y_, wy) = trans

\* C13 witness: a round trip through a layer with a mask-true and a
\* mask-false dimension whose scale and trans are not zero, on a batch that
\* is not zero where the mask is false.
C13_Witness ==
    /\ WellShaped
    /\ \E i, j \in 1..Len(net.mask) :
        /\ net.mask[i] # 0 /\ net.mask[j] = 0
        /\ \E b \in 1..Len(x) : x[b][j] # RZero
    /\ fwd # Idle /\ fwd.exc = "none"
    /\ back # Idle /\ back.exc = "none"
    /\ \E b \in 1..Len(x) : fwd.log_det.v[b] # 0
    /\ Trans(net, PassThrough(net.mask, x, Width), Width) # PassThrough(net.mask, x, Width)

\* ------------------------------------------------ a flow of nested stacks
\* Two coupling layers of the flow's dimension with complementary masks and
\* different parameters, as create_2cl pairs them.
FirstMask == [i \in 1..FeatureDim |-> IF i = 1 THEN 1 ELSE 0]
FlowLeaves ==
    {CouplingLayer([n |-> FeatureDim, k |-> 1], [n |-> FeatureDim, k |-> 2], FirstMask),
     CouplingLayer([n |-> FeatureDim, k |-> 2], [n |-> FeatureDim, k |-> 1], Invert(FirstMask))}

\* The flows of exactly k modules: a coupling layer, or a FlowStack of the
\* flows in a sequence of k - 1 modules in all (an empty FlowStack for k = 1).
RECURSIVE FlowsOfSize(_)
RECURSIVE MemberLists(_)
MemberLists(k) ==
    IF k = 0 THEN {<<>>}
    ELSE UNION {{<<m>> \o rest : m \in FlowsOfSize(j), rest \in MemberLists(k - j)} :
                j \in 1..k}
FlowsOfSize(k) ==
    {FlowStackInit(ms) : ms \in MemberLists(k - 1)}
        \cup (IF k = 1 THEN FlowLeaves ELSE {})

Flows == UNION {FlowsOfSize(k) : k \in 1..MaxNodes}

InitFlow ==
    /\ net \in Flows
    /\ x \in Batches(FeatureDim)
    /\ fwd = Idle
    /\ back = Idle
    /\ inv = Idle
    /\ args = Idle
    /\ made = Idle
    /\ prior = Unbound
    /\ logp = Idle

FlowForward ==
    /\ fwd = Idle
    /\ fwd' = ModuleForward(net, <<>>, x)
    /\ UNCHANGED <<net, x, back, inv, args, made, prior, logp>>

FlowInverseOfForward ==
    /\ fwd.exc = "none"
    /\ back = Idle
    /\ back' = ModuleInverse(net, <<>>, fwd.y)
    /\ UNCHANGED <<net, x, fwd, inv, args, made, prior, logp>>

FlowInverse ==
    /\ inv = Idle
    /\ inv' = ModuleInverse(net, <<>>, x)
    /\ UNCHANGED <<net, x, fwd, back, args, made, prior, logp>>

NextFlow == FlowForward \/ FlowInverseOfForward \/ FlowInverse

SpecFlow == InitFlow /\ [][NextFlow]_vars

\* The module at a path of member positions below m.
RECURSIVE NodeAt(_, _)
NodeAt(m, path) ==
    IF path = <<>> THEN m ELSE NodeAt(m.mods[Head(path)], Tail(path))

\* The calls a log holds that the stack at `path` made to its own members.
MemberCalls(calls, path) ==
    LET Own(e) == /\ Len(e.path) = Len(path) + 1
                  /\ SubSeq(e.path, 1, Len(path)) = path
    IN  SelectSeq(calls, Own)

\* The stacks a call of the flow ran: the flow itself and every nested stack
\* the log shows called.
StacksRun(calls) ==
    (IF net.kind = "FlowStack" THEN {<<>>} ELSE {})
        \cup {calls[i].path : i \in {j \in 1..Len(calls) :
                                        NodeAt(net, calls[j].path).kind = "FlowStack"}}

\* What the stack at `path` was given and what it returned, in a call of the
\* flow on `arg` that returned `ret`.
GivenTo(calls, path, arg) ==
    IF path = <<>> THEN arg
    ELSE (CHOOSE e \in {calls[i] : i \in 1..Len(calls)} : e.path = path).arg
ReturnedBy(calls, path, ret) ==
    IF path = <<>> THEN ret
    ELSE (CHOOSE e \in {calls[i] : i \in 1..Len(calls)} : e.path = path).ret

\* The calls of one stack are one per member, in the order `order`, each
\* given what the one before returned, from `arg` to `ret`.
Chained(mc, path, k, order, op, arg, ret) ==
    /\ Len(mc) = k
    /\ \A i \in 1..k :
        /\ mc[i].path = Append(path, order[i])
        /\ mc[i].op = op
        /\ mc[i].arg = (IF i = 1 THEN arg ELSE mc[i - 1].ret)
    /\ ret = (IF k = 0 THEN arg ELSE mc[k].ret)

OrderedRun(r, arg, op, reversed) ==
    \A path \in StacksRun(r.calls) :
        LET k == Len(NodeAt(net, path).mods)
        IN  Chained(MemberCalls(r.calls, path), path, k,
                    [i \in 1..k |-> IF reversed THEN k + 1 - i ELSE i], op,
                    GivenTo(r.calls, path, arg), ReturnedBy(r.calls, path, r.y))

\* C2: FlowStack ordering: a forward call of a stack (the flow or a nested
\* one) calls each member's forward exactly once, in constructor order, and an
\* inverse call calls each member's inverse exactly once in the reversed
\* order; each member is given what the previously called one returned.
C2_Ordering ==
    /\ (fwd # Idle /\ fwd.exc = "none") => OrderedRun(fwd, x, "forward", FALSE)
    /\ (back # Idle /\ back.exc = "none") => OrderedRun(back, fwd.y, "inverse", TRUE)
    /\ (inv # Idle /\ inv.exc = "none") => OrderedRun(inv, x, "inverse", TRUE)

\* C2 witness: forward and inverse both ran on a stack of two members or more
\* that holds a nested stack, and the members changed the data.
C2_Witness ==
    /\ net.kind = "FlowStack"
    /\ Len(net.mods) >= 2
    /\ \E i \in 1..Len(net.mods) :
        net.mods[i].kind = "FlowStack" /\ net.mods[i].mods # <<>>
    /\ fwd # Idle /\ fwd.exc = "none" /\ fwd.y # x
    /\ back # Idle /\ back.exc = "none"
    /\ inv # Idle /\ inv.exc = "none"

\* A log-det for example b: a float stands for every example.
LDAt(ld, b) == IF ld.kind = "float" THEN ld.v ELSE ld.v[b]

RECURSIVE SumLD(_, _)
SumLD(calls, b) ==
    IF calls = <<>> THEN 0 ELSE LDAt(Head(calls).ld, b) + SumLD(Tail(calls), b)

\* The calls made to coupling layers, at any depth.
LeafCalls(calls) ==
    LET Leaf(e) == NodeAt(net, e.path).kind = "CouplingLayer"
    IN  SelectSeq(calls, Leaf)

\* C3: log-det additivity: the log-det a FlowStack's forward returns is, for
\* every example, the sum of the log-dets its members' forward calls returned
\* (each member called on the output of the one before), at every depth of
\* nesting; so the flow's total is the sum over all coupling-layer calls, each
\* the layer's own log-det on the input it was given.
C3_LogDetAdditive ==
    (fwd # Idle /\ fwd.exc = "none" /\ net.kind = "FlowStack") =>
        \A b \in 1..Len(x) :
            /\ \A path \in StacksRun(fwd.calls) :
                LET own == IF path = <<>> THEN fwd.log_det
                           ELSE (CHOOSE e \in {fwd.calls[i] : i \in 1..Len(fwd.calls)} :
                                    e.path = path).ld
                IN  LDAt(own, b) = SumLD(MemberCalls(fwd.calls, path), b)
            /\ LDAt(fwd.log_det, b) = SumLD(LeafCalls(fwd.calls), b)
            /\ \A i \in 1..Len(fwd.calls) :
                LET e == fwd.calls[i]
                    m == NodeAt(net, e.path)
                IN  m.kind = "CouplingLayer" =>
                        e.ld = CouplingForward(m, e.arg).log_det

\* C3 witness: a stack holding a nested stack, with two coupling-layer calls
\* of nonzero log-det for some example.
C3_Witness ==
    /\ fwd # Idle /\ fwd.exc = "none" /\ net.kind = "FlowStack"
    /\ \E i \in 1..Len(net.mods) : net.mods[i].kind = "FlowStack"
    /\ \E b \in 1..Len(x) :
        Cardinality({i \in 1..Len(fwd.calls) :
            /\ NodeAt(net, fwd.calls[i].path).kind = "CouplingLayer"
            /\ LDAt(fwd.calls[i].ld, b) # 0}) >= 2

\* C4: FlowStack round-trip under nesting: for a FlowStack of coupling layers
\* and FlowStacks, inverse applied to the y that forward(x) returned gives x.
C4_StackRoundTrip ==
    (back # Idle /\ net.kind = "FlowStack") => (back.exc = "none" /\ back.y = x)

\* C4 witness: a round trip through a stack that holds a non-empty nested
\* stack and whose forward changed the data.
C4_Witness ==
    /\ back # Idle /\ net.kind = "FlowStack"
    /\ \E i \in 1..Len(net.mods) :
        net.mods[i].kind = "FlowStack" /\ net.mods[i].mods # <<>>
    /\ fwd.y # x
    /\ back.y = x

\* --------------------------------------- constructors and the generator
\* What can be handed to a constructor besides coupling layers: the abstract
\* FlowModule, a plain torch.nn.Module, and objects of other classes with or
\* without attributes named forward and inverse.
AbstractFlow == [kind |-> "FlowModule"]
PlainModule == [kind |-> "Module"]
Objects == {[kind |-> "object", forward |-> f, inverse |-> i] : f \in BOOLEAN, i \in BOOLEAN}
Candidates == FlowLeaves \cup {AbstractFlow, PlainModule} \cup Objects

ArgLists == UNION {[1..k -> Candidates] : k \in 0..MaxArgs}

\* A coupling layer of feature dimension m.
LayerOfDim(m) ==
    CouplingLayer([n |-> m, k |-> 1], [n |-> m, k |-> 2],
                  [i \in 1..m |-> IF i = 1 THEN 1 ELSE 0])

\* The nets and priors handed to FlowGenerator(net, prior).
GenNets ==
    {LayerOfDim(m) : m \in 1..MaxDim}
        \cup {FlowStackInit(<<LayerOfDim(FeatureDim), LayerOfDim(FeatureDim)>>), PlainModule}
Priors == {[kind |-> "Distribution", dim |-> d, loc |-> c] : d \in 1..MaxDim, c \in {0, 1}}
GenPriors == Priors \cup {[kind |-> "object", forward |-> FALSE, inverse |-> FALSE]}

IsGenerator(m) == ~Raised(m) /\ m.kind = "FlowGenerator"
IsStack(m) == ~Raised(m) /\ m.kind = "FlowStack"

InitGen ==
    /\ net = Idle
    /\ x = <<>>
    /\ fwd = Idle
    /\ back = Idle
    /\ inv = Idle
    /\ args = Idle
    /\ made = Idle
    /\ prior = Unbound
    /\ logp = Idle

\* FlowStack(*a)
NewFlowStack ==
    \E a \in ArgLists :
        /\ args' = [ctor |-> "FlowStack", a |-> a]
        /\ made' = FlowStackInit(a)
        /\ x' = <<>>
        /\ fwd' = Idle
        /\ logp' = Idle
        /\ UNCHANGED <<net, back, inv, prior>>

\* FlowGenerator(n, p)
NewFlowGenerator ==
    \E n \in GenNets, p \in GenPriors :
        /\ args' = [ctor |-> "FlowGenerator", net |-> n, prior |-> p]
        /\ made' = FlowGeneratorInit(n, p)
        /\ x' = <<>>
        /\ fwd' = Idle
        /\ logp' = Idle
        /\ UNCHANGED <<net, back, inv, prior>>

\* prior = ... at module level, before any call is under way.
BindPrior ==
    /\ fwd = Idle
    /\ logp = Idle
    /\ \E p \in Priors : prior' = p
    /\ UNCHANGED <<net, x, fwd, back, inv, args, made, logp>>

\* made.log_p(xx) on the generator just built
CallLogP ==
    /\ IsGenerator(made)
    /\ logp = Idle
    /\ \E w \in 1..MaxDim : \E xx \in Batches(w) :
        /\ x' = xx
        /\ logp' = LogP(made, prior, xx)
    /\ UNCHANGED <<net, fwd, back, inv, args, made, prior>>

\* made(xx) on the stack just built
CallStack ==
    /\ IsStack(made)
    /\ fwd = Idle
    /\ \E xx \in Batches(FeatureDim) :
        /\ x' = xx
        /\ fwd' = ModuleForward(made, <<>>, xx)
    /\ UNCHANGED <<net, back, inv, args, made, prior, logp>>

NextGen == NewFlowStack \/ NewFlowGenerator \/ BindPrior \/ CallLogP \/ CallStack

SpecGen == InitGen /\ [][NextGen]_vars

\* C6 as stated: log_p(x) returns, per example, log_prob(y) of the prior the
\* generator was built with plus log_det, (y, log_det) being the forward
\* result of the generator's flow on x.
C6_OwnPrior ==
    (IsGenerator(made) /\ logp # Idle /\ prior # Unbound) =>
        LET r == ModuleForward(made._net, <<>>, x)
            own == LogProb(made._prior, r.y)
        IN  (r.exc = "none" /\ own.exc = "none") =>
                /\ logp.exc = "none"
                /\ Len(logp.v) = Len(x)
                /\ \A b \in 1..Len(x) :
                    logp.v[b] = LogValue(own.v[b].q,
                                         own.v[b].ln2 + LDAt(r.log_det, b),
                                         own.v[b].hl2pi)

Exposes(o) == ExposesForward(o) /\ ExposesInverse(o)

\* C8: FlowStack(*a) raises, at construction, whenever some argument does not
\* expose both forward and inverse; what was built holds no such member.
C8_RejectsNonExposing ==
    (~Raised(args) /\ args.ctor = "FlowStack") =>
        /\ (\E i \in 1..Len(args.a) : ~Exposes(args.a[i])) =>
                (Raised(made) /\ made.exc = "AssertionError" /\ fwd = Idle)
        /\ IsStack(made) => \A i \in 1..Len(made.mods) : Exposes(made.mods[i])

\* C8 witness: a constructor call with a member that exposes both operations
\* and one that does not, which raised.
C8_Witness ==
    /\ ~Raised(args) /\ args.ctor = "FlowStack"
    /\ \E i \in 1..Len(args.a) : ~Exposes(args.a[i])
    /\ \E i \in 1..Len(args.a) : IsFlowModule(args.a[i])
    /\ Raised(made)

\* The feature dimension of a transform: its masks' length.
RECURSIVE NetDim(_)
NetDim(m) ==
    IF m.kind = "CouplingLayer" THEN Len(m.mask)
    ELSE IF m.kind = "FlowStack" /\ m.mods # <<>> THEN NetDim(m.mods[1])
    ELSE 0

\* C9 as stated: FlowGenerator(net, prior) with a prior whose dimensionality
\* differs from the transform's fails at construction.
C9_MismatchRejected ==
    (/\ ~Raised(args) /\ args.ctor = "FlowGenerator"
     /\ IsFlowModule(args.net) /\ IsDistribution(args.prior)
     /\ NetDim(args.net) # args.prior.dim) => Raised(made)

\* C9 as amended: construction fails exactly when net is no FlowModule or
\* prior is no Distribution; the two dimensionalities are not compared, and
\* what is built holds the net and the prior as given.
C9_OnlyClassesChecked ==
    (~Raised(args) /\ args.ctor = "FlowGenerator") =>
        /\ Raised(made) <=> (~IsFlowModule(args.net) \/ ~IsDistribution(args.prior))
        /\ Raised(made) => made.exc = "AssertionError"
        /\ ~Raised(made) =>
            /\ made.kind = "FlowGenerator"
            /\ made._net = args.net
            /\ made._prior = args.prior

\* C9 witness: a generator built from a transform and a prior of different
\* dimensionalities.
C9_Witness ==
    /\ IsGenerator(made)
    /\ NetDim(made._net) # made._prior.dim

\* ------------------------------------------------------ masks and blocks
\* The proportions p tried.
Ps == {Rat(0, 1), Rat(1, 4), Rat(1, 2), Rat(1, 1)}

\* The initial parameters of t1, t2, s1, s2.
WeightLists == {<<1, 2, 1, 2>>, <<2, 1, 1, 2>>}

InitMask == InitGen

\* create_mask(n, p)
DoCreateMask ==
    \E n \in 1..MaxMaskLen, p \in Ps : \E perm \in Perms(n) :
        /\ args' = [ctor |-> "create_mask", n |-> n, p |-> p, perm |-> perm]
        /\ made' = [kind |-> "ByteTensor", v |-> CreateMask(n, p, perm)]
        /\ UNCHANGED <<net, x, fwd, back, inv, prior, logp>>

\* create_2cl(n, p)
DoCreate2cl ==
    \E n \in 1..MaxMaskLen, p \in Ps, ws \in WeightLists : \E perm \in Perms(n) :
        /\ args' = [ctor |-> "create_2cl", n |-> n, p |-> p, perm |-> perm]
        /\ made' = Create2cl(n, p, perm, ws)
        /\ UNCHANGED <<net, x, fwd, back, inv, prior, logp>>

\* Lengths at and just past the range of a byte.
BigNs == {ByteMod, ByteMod + 1}

\* Some of the permutations torch.randperm(n) can return for a long mask: the
\* rotations of 0..n-1 that put one of the first or last indices in front.
Rotations(n) ==
    {Tensor([i \in 1..n |-> (i - 1 + r) % n]) :
        r \in (0..MaxMaskLen) \cup ((n - MaxMaskLen)..(n - 1))}

\* create_mask(n, p) for a long mask, as the first call made
DoCreateLongMask ==
    \E n \in BigNs, p \in Ps : \E perm \in Rotations(n) :
        /\ args = Idle
        /\ args' = [ctor |-> "create_mask", n |-> n, p |-> p, perm |-> perm]
        /\ made' = [kind |-> "ByteTensor", v |-> CreateMask(n, p, perm)]
        /\ UNCHANGED <<net, x, fwd, back, inv, prior, logp>>

NextMask == DoCreateMask \/ DoCreate2cl \/ DoCreateLongMask

SpecMask == InitMask /\ [][NextMask]_vars

\* C7: mask complementarity: in the FlowStack create_2cl returns, the second
\* coupling layer's mask is the logical complement of the first layer's, entry
\* by entry, so every dimension is mask-false in exactly one of the two layers.
C7_MasksComplementary ==
    (~Raised(args) /\ args.ctor = "create_2cl") =>
        /\ IsStack(made)
        /\ Len(made.mods) = 2
        /\ \A j \in 1..2 :
            /\ made.mods[j].kind = "CouplingLayer"
            /\ Len(made.mods[j].mask) = args.n
        /\ \A i \in 1..args.n :
            /\ (made.mods[2].mask[i] # 0) <=> (made.mods[1].mask[i] = 0)
            /\ Cardinality({j \in 1..2 : made.mods[j].mask[i] = 0}) = 1

\* C7 witness: a block whose first mask has a true and a false entry.
C7_Witness ==
    /\ ~Raised(args) /\ args.ctor = "create_2cl"
    /\ IsStack(made)
    /\ \E i, j \in 1..args.n :
        made.mods[1].mask[i] = 0 /\ made.mods[1].mask[j] # 0

\* C11 as stated: create_mask(n, p) returns, for every n >= 1, also n beyond
\* 256, a vector of length n of 0/1 entries in which position i is true
\* exactly when perm[i] > p * (n - 1), perm being the permutation drawn.
C11_TrueWherePermExceeds ==
    (~Raised(args) /\ args.ctor = "create_mask") =>
        /\ Len(made.v) = args.n
        /\ \A i \in 1..args.n :
            /\ made.v[i] \in {0, 1}
            /\ (made.v[i] = 1) <=> (args.perm[i] * args.p[2] > args.p[1] * (args.n - 1))

\* The number of true entries of the mask just made.
TrueCount == Cardinality({i \in 1..Len(made.v) : made.v[i] # 0})

\* C15: for n <= 256 the number of true entries of create_mask(n, p) is the
\* number of k in 0..n-1 with k > p * (n - 1), whatever permutation was drawn:
\* none for p = 1 and for n = 1, n - 1 for p = 0, and never all n.
C15_TrueCountFixed ==
    (~Raised(args) /\ args.ctor = "create_mask" /\ args.n <= ByteMod) =>
        /\ TrueCount = Cardinality({k \in 0..(args.n - 1) :
                                        k * args.p[2] > args.p[1] * (args.n - 1)})
        /\ (args.p = Rat(1, 1) \/ args.n = 1) => TrueCount = 0
        /\ args.p = Rat(0, 1) => TrueCount = args.n - 1
        /\ TrueCount < args.n

\* C15 witness: a mask of the longest length a byte still indexes, drawn with
\* a permutation other than the identity, with true and false entries.
C15_Witness ==
    /\ ~Raised(args) /\ args.ctor = "create_mask" /\ args.n = ByteMod
    /\ args.perm[1] # 0
    /\ TrueCount > 0
    /\ TrueCount < args.n - 1

\* ------------------------------------------------- a flow of paired blocks
\* The batches the paired-block flows are called on: one example each.
NetInputs == {b \in Batches(FeatureDim) : Len(b) = 1}

\* The flow create_flownet(FeatureDim, d) returned, about to be called.
InitNet ==
    /\ \E d \in 1..MaxDepth :
        \E perms \in [1..d -> Perms(FeatureDim)], wss \in [1..d -> WeightLists] :
            /\ args = [ctor |-> "create_flownet", n |-> FeatureDim, d |-> d,
                       p |-> DefaultPs(d), perms |-> perms, wss |-> wss]
            /\ net = CreateFlownet(FeatureDim, d, DefaultPs(d), perms, wss)
    /\ x \in NetInputs
    /\ fwd = Idle
    /\ back = Idle
    /\ inv = Idle
    /\ made = Idle
    /\ prior = Unbound
    /\ logp = Idle

SpecNet == InitNet /\ [][NextFlow]_vars

\* Layer k, in x-to-latent order, of the blocks create_flownet paired: block 1
\* layer 1, block 1 layer 2, block 2 layer 1, ...
LayerInOrder(k) ==
    LET i == (k + 1) \div 2
        block == Create2cl(args.n, args.p[i], args.perms[i], args.wss[i])
    IN  block.mods[IF k % 2 = 1 THEN 1 ELSE 2]

\* The coupling-layer calls of a run are one per layer, 2 * d in all, in the
\* order `order`, each given what the one before returned, from arg to ret.
LayersApplied(r, arg, op, order) ==
    LET lc == LeafCalls(r.calls)
        k == 2 * args.d
    IN  /\ Len(lc) = k
        /\ \A i, j \in 1..k : lc[i].path = lc[j].path => i = j
        /\ \A i \in 1..k :
            /\ NodeAt(net, lc[i].path) = LayerInOrder(order[i])
            /\ lc[i].op = op
            /\ lc[i].arg = (IF i = 1 THEN arg ELSE lc[i - 1].ret)
            /\ lc[i].ret = (IF op = "forward"
                            THEN CouplingForward(LayerInOrder(order[i]), lc[i].arg).y
                            ELSE CouplingInverse(LayerInOrder(order[i]), lc[i].arg).y)
        /\ r.y = lc[k].ret

\* C14: the forward pass of the flow create_flownet(n, d) returned applies
\* exactly 2 * d coupling layers, block 1 layer 1 first and block d layer 2
\* last, and the inverse pass applies the inverses of the same layers in the
\* reverse order, however the blocks are nested.
C14_LayerOrder ==
    LET k == 2 * args.d
    IN  /\ (fwd # Idle /\ fwd.exc = "none") =>
                LayersApplied(fwd, x, "forward", [i \in 1..k |-> i])
        /\ (back # Idle /\ back.exc = "none") =>
                LayersApplied(back, fwd.y, "inverse", [i \in 1..k |-> k + 1 - i])
        /\ (inv # Idle /\ inv.exc = "none") =>
                LayersApplied(inv, x, "inverse", [i \in 1..k |-> k + 1 - i])

\* C14 witness: forward and both inverse passes ran on a flow of two blocks or
\* more whose layers all differ, and forward changed the data.
C14_Witness ==
    /\ args.d >= 2
    /\ \A i, j \in 1..(2 * args.d) : LayerInOrder(i) = LayerInOrder(j) => i = j
    /\ fwd # Idle /\ fwd.exc = "none" /\ fwd.y # x
    /\ back # Idle /\ back.exc = "none"
    /\ inv # Idle /\ inv.exc = "none"

====
